---------------------------- MODULE Spec2Model ----------------------------
(***************************************************************************)
(* Model of src/data/download.py: the repository content chunking          *)
(* pipeline (classification, code/comment extraction, structural code      *)
(* splitting, sentence chunking, global_id assignment).                    *)
(*                                                                         *)
(* A Python str is a sequence of tokens.  A token is a one-character       *)
(* string ("a", " ", "\n", "{", ...) or a keyword ("func", "def", "end")   *)
(* that stands for its own letters, or the bulk token "W" that stands for  *)
(* the text  a+a+...+a  holding BulkWords words and no whitespace.         *)
(***************************************************************************)
EXTENDS Integers, Sequences, FiniteSets, TLC

VARIABLES
    repo,               \* the files under repo_path, in rglob traversal order
    args,               \* parse_args(): the command line
    pc,                 \* position of main()
    text_files, code_files, other_files,      \* classify_files / *_files.jsonl
    text_content,       \* text_content_files.jsonl
    code_content,       \* code_content_only.jsonl
    comments_content,   \* comments_content_only.jsonl
    other_content,      \* other_content_files.jsonl
    code_trunk,         \* code_content_small_trunk.jsonl
    comments_trunk,     \* comments_content_small_trunk.jsonl
    text_small,         \* text_content_small_size.json
    comments_small,     \* comments_content_small_size.json
    invoked,            \* per code record: the splitter split_code_blocks called
    run,                \* which run of main() this is, and what the run before wrote
    ex,                 \* one call of split_code_and_comments
    sp,                 \* one call of a structural splitter, line by line
    ch                  \* one call of chunk_by_sentences, sentence by sentence

pipeVars == <<repo, args, pc, text_files, code_files, other_files,
              text_content, code_content, comments_content, other_content,
              code_trunk, comments_trunk, text_small, comments_small, invoked, run>>
vars == <<repo, args, pc, text_files, code_files, other_files,
          text_content, code_content, comments_content, other_content,
          code_trunk, comments_trunk, text_small, comments_small, invoked, run,
          ex, sp, ch>>

(***************************************************************************)
(* Bounds of the model.                                                    *)
(***************************************************************************)
MaxFiles == 3           \* files of a repository
MaxContentLen == 5      \* tokens of a file content given to split_code_and_comments
BulkWords == 512        \* words the bulk token "W" stands for
MaxLines == 4           \* lines of a code blob given to a structural splitter
MaxTextLen == 7         \* tokens of a text given to chunk_by_sentences
MaxBudget == 3          \* largest max_words given to chunk_by_sentences

(***************************************************************************)
(* str primitives.                                                         *)
(***************************************************************************)
Whitespace == {" ", "\n"}
WordTokens == {"a", "W", "func", "def", "end"}

RECURSIVE SeqsUpTo(_, _)
SeqsUpTo(S, n) ==
    IF n = 0 THEN {<<>>}
    ELSE LET shorter == SeqsUpTo(S, n - 1)
         IN  shorter \cup {Append(s, t) : s \in {x \in shorter : Len(x) = n - 1}, t \in S}

DropFirst(s, k) == SubSeq(s, k + 1, Len(s))

StartsWith(s, p) == Len(s) >= Len(p) /\ SubSeq(s, 1, Len(p)) = p

RECURSIVE LStrip(_)
LStrip(s) == IF s # <<>> /\ Head(s) \in Whitespace THEN LStrip(Tail(s)) ELSE s

RECURSIVE RStrip(_)
RStrip(s) ==
    IF s # <<>> /\ s[Len(s)] \in Whitespace THEN RStrip(SubSeq(s, 1, Len(s) - 1)) ELSE s

\* str.strip()
Strip(s) == RStrip(LStrip(s))

\* str.splitlines(): every "\n" ends a line; a last line is kept only if non-empty
RECURSIVE SplitLinesFrom(_, _, _)
SplitLinesFrom(s, cur, acc) ==
    IF s = <<>> THEN (IF cur = <<>> THEN acc ELSE Append(acc, cur))
    ELSE IF Head(s) = "\n" THEN SplitLinesFrom(Tail(s), <<>>, Append(acc, cur))
    ELSE SplitLinesFrom(Tail(s), Append(cur, Head(s)), acc)

SplitLines(s) == SplitLinesFrom(s, <<>>, <<>>)

\* sep.join(parts)
RECURSIVE Join(_, _)
Join(parts, sep) ==
    IF parts = <<>> THEN <<>>
    ELSE IF Len(parts) = 1 THEN parts[1]
    ELSE parts[1] \o sep \o Join(Tail(parts), sep)

RECURSIVE MapStrip(_)
MapStrip(ls) == IF ls = <<>> THEN <<>> ELSE <<Strip(Head(ls))>> \o MapStrip(Tail(ls))

NonEmpty(x) == x # <<>>

\* the lines of a text up to surrounding whitespace: each stripped, blank ones left out
NormLines(ls) == SelectSeq(MapStrip(ls), NonEmpty)

(***************************************************************************)
(* split_code_and_comments                                                 *)
(***************************************************************************)
\* least j >= from with s[j..j+1] = "*/", or 0
RECURSIVE CloseAt(_, _)
CloseAt(s, from) ==
    IF from + 1 > Len(s) THEN 0
    ELSE IF s[from] = "*" /\ s[from + 1] = "/" THEN from
    ELSE CloseAt(s, from + 1)

\* re.sub(r"/\*.*?\*/", "", content, flags=re.DOTALL)
RECURSIVE RemoveBlockComments(_)
RemoveBlockComments(s) ==
    IF s = <<>> THEN <<>>
    ELSE IF StartsWith(s, <<"/", "*">>) /\ CloseAt(s, 3) # 0
         THEN RemoveBlockComments(DropFirst(s, CloseAt(s, 3) + 1))
         ELSE <<Head(s)>> \o RemoveBlockComments(Tail(s))

\* stripped.startswith("#") or stripped.startswith("//")
IsCommentLine(line) ==
    LET stripped == Strip(line)
    IN  StartsWith(stripped, <<"#">>) \/ StartsWith(stripped, <<"/", "/">>)

IsCodeLine(line) == ~IsCommentLine(line)

\* a missing else: a comment line lands in code_lines too
SplitCodeAndCommentsBoth(content) ==
    LET lines == SplitLines(RemoveBlockComments(content))
    IN  [code     |-> Strip(Join(lines, <<"\n">>)),
         comments |-> Strip(Join(SelectSeq(lines, IsCommentLine), <<"\n">>))]

SplitCodeAndComments(content) ==
    LET lines == SplitLines(RemoveBlockComments(content))
    IN  [code     |-> Strip(Join(SelectSeq(lines, IsCodeLine), <<"\n">>)),
         comments |-> Strip(Join(SelectSeq(lines, IsCommentLine), <<"\n">>))]

(***************************************************************************)
(* The structural splitters: split_java_code, split_js_code,               *)
(* split_go_code, split_ruby_code.  Each loop body is an operator on the   *)
(* function's locals; i is the 1-based number of the line being read.      *)
(***************************************************************************)
Has(line, t) == \E k \in 1..Len(line) : line[k] = t

\* line.count(t)
Count(line, t) == Cardinality({k \in 1..Len(line) : line[k] = t})

NL == <<"\n">>

\* "\n".join(lines[a-1:b]).strip()
BlockOf(lines, a, b) == Strip(Join(SubSeq(lines, a, b), NL))

\* "blocks or [code]"
OrWhole(blocks, code) == IF blocks # <<>> THEN blocks ELSE <<code>>

JavaStart == [blocks |-> <<>>, stack |-> <<>>, start |-> 1]

\* split_java_code starting the next block on the closing line itself
JavaBodyOverlap(st, lines, i) ==
    LET line == lines[i]
        pushed == IF Has(line, "{") THEN Append(st.stack, "{") ELSE st.stack
        popped == IF Has(line, "}") /\ pushed # <<>>
                  THEN SubSeq(pushed, 1, Len(pushed) - 1) ELSE pushed
        close == popped = <<>> /\ Has(line, "{")
    IN  [blocks |-> IF close THEN Append(st.blocks, BlockOf(lines, st.start, i))
                    ELSE st.blocks,
         stack  |-> popped,
         start  |-> IF close THEN i ELSE st.start]

\* one iteration of "for i, line in enumerate(lines)" of split_java_code
JavaBody(st, lines, i) ==
    LET line == lines[i]
        pushed == IF Has(line, "{") THEN Append(st.stack, "{") ELSE st.stack
        popped == IF Has(line, "}") /\ pushed # <<>>
                  THEN SubSeq(pushed, 1, Len(pushed) - 1) ELSE pushed
        close == popped = <<>> /\ Has(line, "{")
    IN  [blocks |-> IF close THEN Append(st.blocks, BlockOf(lines, st.start, i))
                    ELSE st.blocks,
         stack  |-> popped,
         start  |-> IF close THEN i + 1 ELSE st.start]

\* "if start < len(lines): rest = ...; if rest: blocks.append(rest)", "blocks or [code]"
JavaEnd(st, lines, code) ==
    LET rest == BlockOf(lines, st.start, Len(lines))
    IN  OrWhole(IF st.start <= Len(lines) /\ rest # <<>> THEN Append(st.blocks, rest)
                ELSE st.blocks, code)

RECURSIVE JavaLoop(_, _, _)
JavaLoop(st, lines, i) ==
    IF i > Len(lines) THEN st ELSE JavaLoop(JavaBody(st, lines, i), lines, i + 1)

SplitJavaCode(code) ==
    LET lines == SplitLines(code) IN JavaEnd(JavaLoop(JavaStart, lines, 1), lines, code)

BufferStart == [blocks |-> <<>>, buffer |-> <<>>, depth |-> 0]

\* "block = '\n'.join(buffer).strip(); if block: blocks.append(block)"
WithBlock(blocks, buffer) ==
    LET block == Strip(Join(buffer, NL))
    IN  IF block # <<>> THEN Append(blocks, block) ELSE blocks

\* the flush after the loop of the js, go and ruby splitters, and "blocks or [code]"
BufferEnd(st, code) ==
    OrWhole(IF st.buffer # <<>> THEN WithBlock(st.blocks, st.buffer) ELSE st.blocks, code)

\* re.match(r'^\s*//', line)
IsJsCommentLine(line) == StartsWith(LStrip(line), <<"/", "/">>)

\* one iteration of "for line in lines" of split_js_code
JsBody(st, line) ==
    LET buffer == Append(st.buffer, line)
        depth == st.depth + Count(line, "{") - Count(line, "}")
    IN  IF IsJsCommentLine(line)
        THEN [st EXCEPT !.buffer = buffer]
        ELSE IF depth = 0 /\ buffer # <<>> /\ Has(line, "{")
             THEN [blocks |-> WithBlock(st.blocks, buffer), buffer |-> <<>>, depth |-> depth]
             ELSE [blocks |-> st.blocks, buffer |-> buffer, depth |-> depth]

RECURSIVE JsLoop(_, _)
JsLoop(st, lines) ==
    IF lines = <<>> THEN st ELSE JsLoop(JsBody(st, Head(lines)), Tail(lines))

SplitJsCode(code) == BufferEnd(JsLoop(BufferStart, SplitLines(code)), code)

GoKeywords == {"func", "type", "var", "const"}

\* re.match(r'^\s*(func|type|var|const)\b', line)
IsGoDeclLine(line) ==
    LET rest == LStrip(line)
    IN  /\ rest # <<>>
        /\ Head(rest) \in GoKeywords
        /\ (Len(rest) = 1 \/ rest[2] \notin WordTokens)

\* split_go_code without "brace_depth = 0" on a declaration line
GoBodyCarry(st, line) ==
    LET buffer == Append(st.buffer, line)
        depth == st.depth + Count(line, "{") - Count(line, "}")
    IN  IF depth = 0 /\ Has(line, "{")
        THEN [blocks |-> WithBlock(st.blocks, buffer), buffer |-> <<>>, depth |-> depth]
        ELSE [blocks |-> st.blocks, buffer |-> buffer, depth |-> depth]

\* one iteration of "for line in lines" of split_go_code
GoBody(st, line) ==
    LET buffer == Append(st.buffer, line)
        depth == (IF IsGoDeclLine(line) THEN 0 ELSE st.depth)
                     + Count(line, "{") - Count(line, "}")
    IN  IF depth = 0 /\ Has(line, "{")
        THEN [blocks |-> WithBlock(st.blocks, buffer), buffer |-> <<>>, depth |-> depth]
        ELSE [blocks |-> st.blocks, buffer |-> buffer, depth |-> depth]

RECURSIVE GoLoop(_, _)
GoLoop(st, lines) ==
    IF lines = <<>> THEN st ELSE GoLoop(GoBody(st, Head(lines)), Tail(lines))

SplitGoCode(code) == BufferEnd(GoLoop(BufferStart, SplitLines(code)), code)

RubyKeywords == {"class", "module", "def"}

\* re.match(r'^(class|module|def)\b', stripped)
IsRubyOpenLine(stripped) ==
    /\ stripped # <<>>
    /\ Head(stripped) \in RubyKeywords
    /\ (Len(stripped) = 1 \/ stripped[2] \notin WordTokens)

\* split_ruby_code without "and depth > 0": every bare end counts down
RubyBodyUnguarded(st, line) ==
    LET stripped == Strip(line)
        buffer == Append(st.buffer, line)
    IN  IF IsRubyOpenLine(stripped)
        THEN [blocks |-> st.blocks, buffer |-> buffer, depth |-> st.depth + 1]
        ELSE IF stripped = <<"end">>
             THEN IF st.depth - 1 = 0
                  THEN [blocks |-> WithBlock(st.blocks, buffer), buffer |-> <<>>, depth |-> 0]
                  ELSE [blocks |-> st.blocks, buffer |-> buffer, depth |-> st.depth - 1]
             ELSE [blocks |-> st.blocks, buffer |-> buffer, depth |-> st.depth]

\* one iteration of "for line in lines" of split_ruby_code
RubyBody(st, line) ==
    LET stripped == Strip(line)
        buffer == Append(st.buffer, line)
    IN  IF IsRubyOpenLine(stripped)
        THEN [blocks |-> st.blocks, buffer |-> buffer, depth |-> st.depth + 1]
        ELSE IF stripped = <<"end">> /\ st.depth > 0
             THEN IF st.depth - 1 = 0
                  THEN [blocks |-> WithBlock(st.blocks, buffer), buffer |-> <<>>, depth |-> 0]
                  ELSE [blocks |-> st.blocks, buffer |-> buffer, depth |-> st.depth - 1]
             ELSE [blocks |-> st.blocks, buffer |-> buffer, depth |-> st.depth]

RECURSIVE RubyLoop(_, _)
RubyLoop(st, lines) ==
    IF lines = <<>> THEN st ELSE RubyLoop(RubyBody(st, Head(lines)), Tail(lines))

SplitRubyCode(code) == BufferEnd(RubyLoop(BufferStart, SplitLines(code)), code)

(***************************************************************************)
(* split_text_into_sentences, chunk_by_sentences                           *)
(***************************************************************************)
\* the terminal punctuation of r'([。！？!?\.])' that the model's texts use
SentenceEnd == {".", "?"}

\* re.split(r'([。！？!?\.])', text): spans and the punctuation between them, alternating
RECURSIVE ReSplitFrom(_, _, _)
ReSplitFrom(s, cur, acc) ==
    IF s = <<>> THEN Append(acc, cur)
    ELSE IF Head(s) \in SentenceEnd
         THEN ReSplitFrom(Tail(s), <<>>, acc \o <<cur, <<Head(s)>>>>)
         ELSE ReSplitFrom(Tail(s), Append(cur, Head(s)), acc)

ReSplit(text) == ReSplitFrom(text, <<>>, <<>>)

\* ["".join(x) for x in zip(sents[0::2], sents[1::2])], plus sents[-1] when len is odd
Paired(sents) ==
    LET n == Len(sents)
        pairs == [k \in 1..(n \div 2) |-> sents[2 * k - 1] \o sents[2 * k]]
    IN  IF n % 2 # 0 THEN Append(pairs, sents[n]) ELSE pairs

SplitTextIntoSentences(text) == SelectSeq(MapStrip(Paired(ReSplit(text))), NonEmpty)

\* len(s.split()): the maximal runs of non-whitespace
RECURSIVE SplitCountFrom(_, _)
SplitCountFrom(s, inWord) ==
    IF s = <<>> THEN 0
    ELSE IF Head(s) \in Whitespace THEN SplitCountFrom(Tail(s), FALSE)
    ELSE (IF inWord THEN 0 ELSE 1) + SplitCountFrom(Tail(s), TRUE)

SplitCount(s) == SplitCountFrom(s, FALSE)

\* the loop body with >= for >: a chunk that would exactly fill the budget is closed
ChunkBodyEager(st, s, max_words) ==
    LET n == SplitCount(s)
        close == st.count + n >= max_words /\ st.cur # <<>>
    IN  [chunks |-> IF close THEN Append(st.chunks, Join(st.cur, <<" ">>)) ELSE st.chunks,
         cur    |-> Append(IF close THEN <<>> ELSE st.cur, s),
         count  |-> (IF close THEN 0 ELSE st.count) + n]

\* the loop body that forgets to reset the buffer when it closes a chunk
ChunkBodyKeep(st, s, max_words) ==
    LET n == SplitCount(s)
        close == st.count + n > max_words /\ st.cur # <<>>
    IN  [chunks |-> IF close THEN Append(st.chunks, Join(st.cur, <<" ">>)) ELSE st.chunks,
         cur    |-> Append(st.cur, s),
         count  |-> (IF close THEN 0 ELSE st.count) + n]

\* one iteration of "for s in sents" on (chunks, cur, count)
ChunkBody(st, s, max_words) ==
    LET n == SplitCount(s)
        close == st.count + n > max_words /\ st.cur # <<>>
    IN  [chunks |-> IF close THEN Append(st.chunks, Join(st.cur, <<" ">>)) ELSE st.chunks,
         cur    |-> Append(IF close THEN <<>> ELSE st.cur, s),
         count  |-> (IF close THEN 0 ELSE st.count) + n]

\* chunk_by_sentences returning without the flush of the last buffer
ChunkFlushedLost(st) == st.chunks

\* "if cur: chunks.append(' '.join(cur))"
ChunkFlushed(st) ==
    IF st.cur # <<>> THEN Append(st.chunks, Join(st.cur, <<" ">>)) ELSE st.chunks

RECURSIVE ChunkLoop(_, _, _)
ChunkLoop(st, sents, max_words) ==
    IF sents = <<>> THEN st
    ELSE ChunkLoop(ChunkBody(st, Head(sents), max_words), Tail(sents), max_words)

ChunkStart == [chunks |-> <<>>, cur |-> <<>>, count |-> 0]

ChunkBySentences(text, max_words) ==
    ChunkFlushed(ChunkLoop(ChunkStart, SplitTextIntoSentences(text), max_words))

(***************************************************************************)
(* The pipeline of main().  An entry of the repository tree is a record    *)
(*   [ext, is_file, content, readable, ast]:                               *)
(* is_file is p.is_file() (FALSE for a directory), readable is whether     *)
(* open(path).read() succeeds, ast is what ast.parse gives for the file's  *)
(* extracted code ("SyntaxError", or the <<lineno, end_lineno>> of each    *)
(* node of tree.body).  A path is [id, ext]: id is the entry's place in    *)
(* repo, or Len(repo) + k for the k-th file that main() writes.            *)
(***************************************************************************)
DEFAULT_TEXT_EXTS == {".md"}
DEFAULT_CODE_EXTS == {".go", ".java", ".js", ".ts", ".php", ".py", ".rb"}

\* the max_words that split_code_blocks runs with: main() passes none
SplitMaxWords == 512

\* str.lower() on the extensions and extension names of the model
Lower(e) ==
    CASE e = ".JAVA" -> ".java" [] e = ".MD" -> ".md" [] e = "TXT" -> "txt" [] OTHER -> e

\* the str that the characters of a normalised extension spell
ExtStr(p) == CASE p = <<".", "txt">> -> ".txt" [] p = <<".", "py">> -> ".py"
               [] p = <<".", "md">> -> ".md"

RECURSIVE LowerAll(_)
LowerAll(p) == IF p = <<>> THEN <<>> ELSE <<Lower(Head(p))>> \o LowerAll(Tail(p))

\* normalize_ext_list: ext_str is the value of the flag already cut at its commas,
\* <<>> when the flag is absent or empty; the result {} stands for None as well,
\* main() takes the default for either
RECURSIVE NormalizeExtList(_)
NormalizeExtList(ext_str) ==
    IF ext_str = <<>> THEN {}
    ELSE LET stripped == Strip(Head(ext_str))
             p == IF stripped # <<>> /\ ~StartsWith(stripped, <<".">>)
                  THEN <<".">> \o stripped ELSE stripped
         IN  (IF p # <<>> THEN {ExtStr(LowerAll(p))} ELSE {})
                 \cup NormalizeExtList(Tail(ext_str))

\* "normalize_ext_list(args.text_ext) or DEFAULT_TEXT_EXTS", and the same for code
text_ext ==
    IF NormalizeExtList(args.text_ext) # {} THEN NormalizeExtList(args.text_ext)
    ELSE DEFAULT_TEXT_EXTS
code_ext ==
    IF NormalizeExtList(args.code_ext) # {} THEN NormalizeExtList(args.code_ext)
    ELSE DEFAULT_CODE_EXTS

NoAst == <<>>

PathOf(k) == [id |-> k, ext |-> repo[k].ext]

\* the files main() writes under output_dir, in the order it opens them
OutputExts == <<".jsonl", ".jsonl", ".jsonl", ".jsonl", ".jsonl", ".jsonl", ".jsonl",
                ".jsonl", ".jsonl", ".json", ".json">>
Outputs == <<text_files, code_files, other_files, text_content, code_content,
             comments_content, other_content, code_trunk, comments_trunk,
             text_small, comments_small>>

\* repo_path.rglob("*"): the entries of the repository and, once a run has written
\* them into an output_dir that lies inside the repository, the output files
TreePaths ==
    [k \in 1..Len(repo) |-> PathOf(k)]
        \o (IF args.output_dir = "inside" /\ run.n > 1
            THEN [k \in 1..Len(OutputExts) |-> [id |-> Len(repo) + k, ext |-> OutputExts[k]]]
            ELSE <<>>)

\* the text of a .jsonl output file, one line per record, and of a .json one, an
\* array of the records; no stage looks into the text of a file it only copies, so
\* an object is written without its fields
RECURSIVE JsonObjects(_, _)
JsonObjects(records, sep) ==
    IF records = <<>> THEN <<>>
    ELSE <<"{", "}">> \o sep \o JsonObjects(Tail(records), sep)

\* what open(path).read() gives for the k-th output file: what was last written
\* to it; other_content_files.jsonl is read while save_other_content has it open
\* for writing, truncated, its records still in the write buffer
OutputContent(k) ==
    IF k = 7 THEN <<>>
    ELSE IF OutputExts[k] = ".json" THEN <<"[">> \o JsonObjects(Outputs[k], <<",">>) \o <<"]">>
    ELSE JsonObjects(Outputs[k], NL)

\* the file at a path
FileOf(path) ==
    IF path.id <= Len(repo) THEN repo[path.id]
    ELSE [ext |-> path.ext, is_file |-> TRUE, readable |-> TRUE, ast |-> NoAst,
          content |-> OutputContent(path.id - Len(repo))]

\* the branch of classify_files an extension takes
KindOf(ext, text_exts, code_exts) ==
    IF ext \in text_exts THEN "text" ELSE IF ext \in code_exts THEN "code" ELSE "other"

\* classify_files testing p.suffix as it is spelt, without lower()
RECURSIVE ClassifiedAsSpelt(_, _, _, _)
ClassifiedAsSpelt(k, kind, text_exts, code_exts) ==
    IF k > Len(TreePaths) THEN <<>>
    ELSE LET p == TreePaths[k]
         IN  (IF FileOf(p).is_file /\ KindOf(p.ext, text_exts, code_exts) = kind
              THEN <<p>> ELSE <<>>) \o ClassifiedAsSpelt(k + 1, kind, text_exts, code_exts)

\* classify_files: the paths of one kind from entry k of the traversal on, in
\* traversal order; save_as_jsonl and load_file_list hand each list on unchanged
RECURSIVE Classified(_, _, _, _)
Classified(k, kind, text_exts, code_exts) ==
    IF k > Len(TreePaths) THEN <<>>
    ELSE LET p == TreePaths[k]
         IN  (IF FileOf(p).is_file /\ KindOf(Lower(p.ext), text_exts, code_exts) = kind
              THEN <<p>> ELSE <<>>) \o Classified(k + 1, kind, text_exts, code_exts)

\* save_text_content with the exception leaving the loop
RECURSIVE SaveContentAbort(_)
SaveContentAbort(file_paths) ==
    IF file_paths = <<>> THEN <<>>
    ELSE LET path == Head(file_paths)
         IN  IF FileOf(path).readable
             THEN <<[path |-> path, content |-> FileOf(path).content]>>
                      \o SaveContentAbort(Tail(file_paths))
             ELSE <<>>

\* save_text_content, save_other_content: the records written for file_paths
RECURSIVE SaveContent(_)
SaveContent(file_paths) ==
    IF file_paths = <<>> THEN <<>>
    ELSE LET path == Head(file_paths)
         IN  (IF FileOf(path).readable
              THEN <<[path |-> path, content |-> FileOf(path).content]>>
              ELSE <<>>) \o SaveContent(Tail(file_paths))

\* "code, comments = split_code_and_comments(content)" with the two names swapped
UnpackedSwapped(content) ==
    [code |-> SplitCodeAndComments(content).comments,
     comments |-> SplitCodeAndComments(content).code]

\* "code, comments = split_code_and_comments(content)"
Unpacked(content) == SplitCodeAndComments(content)

\* save_code_comment_split: the records written to code_f and com_f for code_paths
RECURSIVE SaveCodeCommentSplit(_)
SaveCodeCommentSplit(code_paths) ==
    IF code_paths = <<>> THEN [code |-> <<>>, comments |-> <<>>]
    ELSE LET path == Head(code_paths)
             rest == SaveCodeCommentSplit(Tail(code_paths))
             r == Unpacked(FileOf(path).content)
         IN  IF ~FileOf(path).readable THEN rest
             ELSE [code |-> (IF r.code # <<>>
                             THEN <<[path |-> path, code |-> r.code]>> ELSE <<>>)
                                \o rest.code,
                   comments |-> (IF r.comments # <<>>
                                 THEN <<[path |-> path, comments |-> r.comments]>>
                                 ELSE <<>>) \o rest.comments]

\* detect_lang
detect_lang(path) ==
    LET ext == Lower(path.ext)
    IN  CASE ext = ".py" -> "python" [] ext = ".java" -> "java" [] ext = ".js" -> "js"
          [] ext = ".ts" -> "ts" [] ext = ".go" -> "go" [] ext = ".php" -> "php"
          [] ext = ".rb" -> "ruby" [] OTHER -> "unknown"

\* count_words: len(re.findall(r"\w+", s)); a run of word tokens is one word, and
\* each bulk token in it brings BulkWords - 1 more
RECURSIVE CountWordsFrom(_, _)
CountWordsFrom(s, inWord) ==
    IF s = <<>> THEN 0
    ELSE IF Head(s) \notin WordTokens THEN CountWordsFrom(Tail(s), FALSE)
    ELSE (IF inWord THEN 0 ELSE 1) + (IF Head(s) = "W" THEN BulkWords - 1 ELSE 0)
             + CountWordsFrom(Tail(s), TRUE)

CountWords(s) == CountWordsFrom(s, FALSE)

\* str(n) of f"{idx}.{j}"
DigitChar == <<"0", "1", "2", "3", "4", "5", "6", "7", "8", "9">>

RECURSIVE Digits(_)
Digits(n) ==
    IF n < 10 THEN <<DigitChar[n + 1]>>
    ELSE Digits(n \div 10) \o <<DigitChar[(n % 10) + 1]>>

\* f"{idx}.{j}" numbering the units of a record from 0
GlobalIdFromZero(idx, j) == Digits(idx) \o <<".">> \o Digits(j - 1)

\* f"{idx}.{j}"
GlobalId(idx, j) == Digits(idx) \o <<".">> \o Digits(j)

\* split_python_code giving no block when ast.parse raises
SplitPythonCodeNoFallback(code, ast) ==
    LET lines == SplitLines(code)
    IN  IF ast = "SyntaxError" THEN <<>>
        ELSE OrWhole([k \in 1..Len(ast) |->
                         Join(SubSeq(lines, ast[k][1], ast[k][2]), NL)], code)

\* split_python_code
SplitPythonCode(code, ast) ==
    LET lines == SplitLines(code)
    IN  IF ast = "SyntaxError" THEN <<code>>
        ELSE OrWhole([k \in 1..Len(ast) |->
                         Join(SubSeq(lines, ast[k][1], ast[k][2]), NL)], code)

\* "if total_words <= max_words" as a strict comparison
IsShortStrict(total_words, max_words) == total_words < max_words

\* "if total_words <= max_words"
IsShort(total_words, max_words) == total_words <= max_words

\* the splitter split_code_blocks calls for a language
SplitterOf(lang) ==
    CASE lang = "python" -> "python" [] lang = "java" -> "java"
      [] lang \in {"js", "ts"} -> "js" [] lang = "go" -> "go"
      [] lang = "ruby" -> "ruby" [] OTHER -> "whole"

\* Step 2 of split_code_blocks
BlocksOf(splitter, code, ast) ==
    CASE splitter = "python" -> SplitPythonCode(code, ast)
      [] splitter = "java" -> SplitJavaCode(code)
      [] splitter = "js" -> SplitJsCode(code)
      [] splitter = "go" -> SplitGoCode(code)
      [] splitter = "ruby" -> SplitRubyCode(code)
      [] OTHER -> <<code>>

\* split_code_blocks: the records written for input record idx and those after it
RECURSIVE SplitCodeBlocks(_, _, _)
SplitCodeBlocks(records, idx, max_words) ==
    IF idx > Len(records) THEN [out |-> <<>>, invoked |-> <<>>]
    ELSE LET path == records[idx].path
             code == records[idx].code
             lang == detect_lang(path)
             rest == SplitCodeBlocks(records, idx + 1, max_words)
             blocks == BlocksOf(SplitterOf(lang), code, FileOf(path).ast)
         IN  IF IsShort(CountWords(code), max_words)
             THEN [out |-> <<[global_id |-> GlobalId(idx, 1), path |-> path,
                              lang |-> lang, code |-> code]>> \o rest.out,
                   invoked |-> <<"none">> \o rest.invoked]
             ELSE [out |-> [j \in 1..Len(blocks) |->
                              [global_id |-> GlobalId(idx, j), path |-> path,
                               lang |-> lang, code |-> blocks[j]]] \o rest.out,
                   invoked |-> <<SplitterOf(lang)>> \o rest.invoked]

\* "if l.strip()"
NotBlank(l) == Strip(l) # <<>>

\* the {global_id, path, comments} records of one input record
CommentRecords(idx, path, units) ==
    [j \in 1..Len(units) |-> [global_id |-> GlobalId(idx, j), path |-> path,
                              comments |-> units[j]]]

\* the {global_id, path, text} records of one input record
TextRecords(idx, path, units) ==
    [j \in 1..Len(units) |-> [global_id |-> GlobalId(idx, j), path |-> path,
                              text |-> units[j]]]

\* split_comment_blocks
RECURSIVE SplitCommentBlocks(_, _)
SplitCommentBlocks(records, idx) ==
    IF idx > Len(records) THEN <<>>
    ELSE LET comments == records[idx].comments
             lines == SelectSeq(SplitLines(comments), NotBlank)
         IN  (IF comments = <<>> THEN <<>>
              ELSE CommentRecords(idx, records[idx].path, lines))
                 \o SplitCommentBlocks(records, idx + 1)

\* save_markdown_chunks_as_json
RECURSIVE SaveMarkdownChunks(_, _, _)
SaveMarkdownChunks(records, i, max_words) ==
    IF i > Len(records) THEN <<>>
    ELSE (IF Lower(records[i].path.ext) # ".md" THEN <<>>
          ELSE TextRecords(i, records[i].path,
                           ChunkBySentences(records[i].content, max_words)))
             \o SaveMarkdownChunks(records, i + 1, max_words)

\* save_comment_chunks_as_json with enumerate(f) counting from 0
RECURSIVE SaveCommentChunksFromZero(_, _, _)
SaveCommentChunksFromZero(records, i, max_words) ==
    IF i > Len(records) THEN <<>>
    ELSE (IF records[i].comments = <<>> THEN <<>>
          ELSE CommentRecords(i - 1, records[i].path,
                              ChunkBySentences(records[i].comments, max_words)))
             \o SaveCommentChunksFromZero(records, i + 1, max_words)

\* save_comment_chunks_as_json
RECURSIVE SaveCommentChunks(_, _, _)
SaveCommentChunks(records, i, max_words) ==
    IF i > Len(records) THEN <<>>
    ELSE (IF records[i].comments = <<>> THEN <<>>
          ELSE CommentRecords(i, records[i].path,
                              ChunkBySentences(records[i].comments, max_words)))
             \o SaveCommentChunks(records, i + 1, max_words)

(***************************************************************************)
(* The idle values of the parts a specification does not run.              *)
(***************************************************************************)
PipeIdle ==
    /\ repo = <<>> /\ pc = "idle"
    /\ args = [max_words |-> 0, text_ext |-> <<>>, code_ext |-> <<>>,
               output_dir |-> "outside"]
    /\ run = [n |-> 0, first |-> <<>>]
    /\ text_files = <<>> /\ code_files = <<>> /\ other_files = <<>>
    /\ text_content = <<>> /\ code_content = <<>> /\ comments_content = <<>>
    /\ other_content = <<>> /\ code_trunk = <<>> /\ comments_trunk = <<>>
    /\ text_small = <<>> /\ comments_small = <<>> /\ invoked = <<>>
ExIdle == ex = [pc |-> "idle"]
SpIdle == sp = [pc |-> "idle"]
ChIdle == ch = [pc |-> "idle"]

(***************************************************************************)
(* Spec: main() on every repository of at most MaxFiles files.             *)
(***************************************************************************)
\* the files a repository of the model is made of
FileKinds ==
    {   \* a markdown file of three sentences
        [is_file |-> TRUE, ext |-> ".md", readable |-> TRUE, ast |-> NoAst,
         content |-> <<"a", ".", " ", "a", " ", "a", ".", " ", "a">>],
        \* a markdown file that cannot be decoded
        [is_file |-> TRUE, ext |-> ".MD", readable |-> FALSE, ast |-> NoAst, content |-> <<>>],
        \* a short Java file, two words of code and a line comment
        [is_file |-> TRUE, ext |-> ".java", readable |-> TRUE, ast |-> NoAst,
         content |-> <<"a", " ", "a", "{", "\n", "/", "/", " ", "a", ".", " ", "a",
                       "\n", "}">>],
        \* a long Java file: two one-line methods between two comment lines
        [is_file |-> TRUE, ext |-> ".JAVA", readable |-> TRUE, ast |-> NoAst,
         content |-> <<"/", "/", " ", "a", "\n", "W", "{", "}", "\n", "W", "{", "}",
                       "\n", "#", " ", "a", ".", " ", "a">>],
        \* a long Java file: two methods, each closed by a brace on its own line
        [is_file |-> TRUE, ext |-> ".java", readable |-> TRUE, ast |-> NoAst,
         content |-> <<"W", "{", "\n", " ", "a", "\n", "}", "\n",
                       "W", "{", "\n", " ", "a", "\n", "}", "\n">>],
        \* a JavaScript file of exactly BulkWords words
        [is_file |-> TRUE, ext |-> ".js", readable |-> TRUE, ast |-> NoAst, content |-> <<"W">>],
        \* a long Python file: two expression statements, on lines 1 and 3
        [is_file |-> TRUE, ext |-> ".py", readable |-> TRUE, ast |-> <<<<1, 1>>, <<3, 3>>>>,
         content |-> <<"W", "\n", "\n", "W">>],
        \* a Ruby file that is one comment line
        [is_file |-> TRUE, ext |-> ".rb", readable |-> TRUE, ast |-> NoAst, content |-> <<"#", " ", "a">>],
        \* a Go file that cannot be decoded
        [is_file |-> TRUE, ext |-> ".go", readable |-> FALSE, ast |-> NoAst, content |-> <<>>],
        \* a file of another kind, and one that cannot be decoded
        [is_file |-> TRUE, ext |-> ".txt", readable |-> TRUE, ast |-> NoAst, content |-> <<"a">>],
        [is_file |-> TRUE, ext |-> ".png", readable |-> FALSE, ast |-> NoAst, content |-> <<>>]
    }

\* the values of --max_words
MaxWordsChoices == {1, 3}

Init ==
    /\ ExIdle /\ SpIdle /\ ChIdle
    /\ repo \in SeqsUpTo(FileKinds, MaxFiles)
    /\ args \in [max_words : MaxWordsChoices, text_ext : {<<>>}, code_ext : {<<>>},
                 output_dir : {"outside"}]
    /\ run = [n |-> 1, first |-> <<>>]
    /\ pc = "classify"
    /\ text_files = <<>> /\ code_files = <<>> /\ other_files = <<>>
    /\ text_content = <<>> /\ code_content = <<>> /\ comments_content = <<>>
    /\ other_content = <<>> /\ code_trunk = <<>> /\ comments_trunk = <<>>
    /\ text_small = <<>> /\ comments_small = <<>> /\ invoked = <<>>

\* classify_files, save_as_jsonl x 3 (and load_file_list of each list)
Classify ==
    /\ pc = "classify"
    /\ text_files' = Classified(1, "text", text_ext, code_ext)
    /\ code_files' = Classified(1, "code", text_ext, code_ext)
    /\ other_files' = Classified(1, "other", text_ext, code_ext)
    /\ pc' = "save_text"
    /\ UNCHANGED <<repo, args, text_content, code_content, comments_content,
                   other_content, code_trunk, comments_trunk, text_small,
                   comments_small, invoked, run, ex, sp, ch>>

SaveTextContent ==
    /\ pc = "save_text"
    /\ text_content' = SaveContent(text_files)
    /\ pc' = "save_code"
    /\ UNCHANGED <<repo, args, text_files, code_files, other_files, code_content,
                   comments_content, other_content, code_trunk, comments_trunk,
                   text_small, comments_small, invoked, run, ex, sp, ch>>

SaveCodeComment ==
    /\ pc = "save_code"
    /\ LET written == SaveCodeCommentSplit(code_files)
       IN  /\ code_content' = written.code
           /\ comments_content' = written.comments
    /\ pc' = "save_other"
    /\ UNCHANGED <<repo, args, text_files, code_files, other_files, text_content,
                   other_content, code_trunk, comments_trunk, text_small,
                   comments_small, invoked, run, ex, sp, ch>>

SaveOtherContent ==
    /\ pc = "save_other"
    /\ other_content' = SaveContent(other_files)
    /\ pc' = "split_code"
    /\ UNCHANGED <<repo, args, text_files, code_files, other_files, text_content,
                   code_content, comments_content, code_trunk, comments_trunk,
                   text_small, comments_small, invoked, run, ex, sp, ch>>

\* split_code_blocks(code_content_only, code_content_small_trunk): no max_words given
SplitCode ==
    /\ pc = "split_code"
    /\ LET written == SplitCodeBlocks(code_content, 1, SplitMaxWords)
       IN  /\ code_trunk' = written.out
           /\ invoked' = written.invoked
    /\ pc' = "split_comments"
    /\ UNCHANGED <<repo, args, text_files, code_files, other_files, text_content,
                   code_content, comments_content, other_content, comments_trunk,
                   text_small, comments_small, run, ex, sp, ch>>

SplitComments ==
    /\ pc = "split_comments"
    /\ comments_trunk' = SplitCommentBlocks(comments_content, 1)
    /\ pc' = "md_chunks"
    /\ UNCHANGED <<repo, args, text_files, code_files, other_files, text_content,
                   code_content, comments_content, other_content, code_trunk,
                   text_small, comments_small, invoked, run, ex, sp, ch>>

SaveMarkdown ==
    /\ pc = "md_chunks"
    /\ text_small' = SaveMarkdownChunks(text_content, 1, args.max_words)
    /\ pc' = "comment_chunks"
    /\ UNCHANGED <<repo, args, text_files, code_files, other_files, text_content,
                   code_content, comments_content, other_content, code_trunk,
                   comments_trunk, comments_small, invoked, run, ex, sp, ch>>

SaveComments ==
    /\ pc = "comment_chunks"
    /\ comments_small' = SaveCommentChunks(comments_content, 1, args.max_words)
    /\ pc' = "done"
    /\ UNCHANGED <<repo, args, text_files, code_files, other_files, text_content,
                   code_content, comments_content, other_content, code_trunk,
                   comments_trunk, text_small, invoked, run, ex, sp, ch>>

Next ==
    \/ Classify
    \/ SaveTextContent \/ SaveCodeComment \/ SaveOtherContent
    \/ SplitCode \/ SplitComments
    \/ SaveMarkdown \/ SaveComments

Spec == Init /\ [][Next]_vars

\* reading a global_id back: the number before the "." and the number after it
DigitValue(c) == (CHOOSE k \in 1..10 : DigitChar[k] = c) - 1

RECURSIVE ParseNat(_)
ParseNat(ds) ==
    IF ds = <<>> THEN 0
    ELSE 10 * ParseNat(SubSeq(ds, 1, Len(ds) - 1)) + DigitValue(ds[Len(ds)])

DotAt(gid) == CHOOSE k \in 1..Len(gid) : gid[k] = "."
FileIndex(gid) == ParseNat(SubSeq(gid, 1, DotAt(gid) - 1))
UnitIndex(gid) == ParseNat(SubSeq(gid, DotAt(gid) + 1, Len(gid)))

Readable(path) == FileOf(path).readable

ExtractionDone == pc \in {"split_code", "split_comments", "md_chunks", "comment_chunks", "done"}
CodeSplitDone == pc \in {"split_comments", "md_chunks", "comment_chunks", "done"}

\* the records of a stream that belong to one path
RecordsOf(stream, path) == SelectSeq(stream, LAMBDA r : r.path = path)

\* C1: a code record of at most max_words words (max_words being the budget that
\* split_code_blocks runs with) yields exactly one record, with global_id
\* "{fileIndex}.1" and the trimmed code of the record, and no splitter is called.
C1_ShortCodeIsOneBlock ==
    CodeSplitDone =>
        \A idx \in 1..Len(code_content) :
            CountWords(code_content[idx].code) <= SplitMaxWords =>
                LET mine == RecordsOf(code_trunk, code_content[idx].path)
                IN  /\ Len(mine) = 1
                    /\ mine[1].global_id = Digits(idx) \o <<".", "1">>
                    /\ mine[1].code = Strip(code_content[idx].code)
                    /\ invoked[idx] = "none"

\* C1 witness: the second code record has exactly max_words words and was written
C1_Witness ==
    /\ pc = "done"
    /\ Len(code_content) >= 2
    /\ CountWords(code_content[2].code) = SplitMaxWords
    /\ \E r \in 1..Len(code_trunk) : code_trunk[r].global_id = <<"2", ".", "1">>

\* the global_ids of a stream are pairwise distinct; fileIndex never decreases and
\* grows between files; unitIndex counts 1, 2, ... within a file
StreamNumbered(stream) ==
    /\ \A i, j \in 1..Len(stream) :
           i < j => stream[i].global_id # stream[j].global_id
    /\ stream # <<>> => UnitIndex(stream[1].global_id) = 1
    /\ \A k \in 1..(Len(stream) - 1) :
           LET a == stream[k]
               b == stream[k + 1]
           IN  /\ FileIndex(a.global_id) <= FileIndex(b.global_id)
               /\ FileIndex(a.global_id) >= 1
               /\ IF a.path = b.path
                  THEN /\ FileIndex(b.global_id) = FileIndex(a.global_id)
                       /\ UnitIndex(b.global_id) = UnitIndex(a.global_id) + 1
                  ELSE /\ FileIndex(b.global_id) > FileIndex(a.global_id)
                       /\ UnitIndex(b.global_id) = 1

\* C4: in each of the four output streams the global_ids are pairwise distinct,
\* fileIndex never decreases and strictly increases between the records of
\* different files, and within a file unitIndex is 1, 2, ..., n in emission order.
C4_GlobalIdsNumbered ==
    /\ StreamNumbered(code_trunk)
    /\ StreamNumbered(comments_trunk)
    /\ StreamNumbered(text_small)
    /\ StreamNumbered(comments_small)

HasSecondUnit(stream) == \E k \in 1..Len(stream) : UnitIndex(stream[k].global_id) = 2
HasTwoFiles(stream) == \E i, j \in 1..Len(stream) : stream[i].path # stream[j].path

\* C4 witness: a finished run in which every stream holds a file of several units
\* and the code and comment-line streams hold two files
C4_Witness ==
    /\ pc = "done"
    /\ HasSecondUnit(code_trunk) /\ HasSecondUnit(comments_trunk)
    /\ HasSecondUnit(text_small) /\ HasSecondUnit(comments_small)
    /\ HasTwoFiles(code_trunk) /\ HasTwoFiles(comments_trunk)

\* the methods of a blob that is nothing but methods, each a signature line holding
\* "{" and no "}", lines without braces, and a closing line that is "}" alone;
\* open is the line the current method began at (0: none)
RECURSIVE MethodsFrom(_, _, _)
MethodsFrom(lines, i, open) ==
    IF i > Len(lines) THEN [ok |-> open = 0, methods |-> <<>>]
    ELSE LET line == lines[i]
             rest == MethodsFrom(lines, i + 1, IF open = 0 THEN i ELSE open)
             after == MethodsFrom(lines, i + 1, 0)
         IN  IF open = 0
             THEN IF Has(line, "{") /\ ~Has(line, "}") THEN rest
                  ELSE [ok |-> FALSE, methods |-> <<>>]
             ELSE IF Strip(line) = <<"}">>
                  THEN [ok |-> after.ok,
                        methods |-> <<BlockOf(lines, open, i)>> \o after.methods]
                  ELSE IF ~Has(line, "{") /\ ~Has(line, "}") THEN rest
                  ELSE [ok |-> FALSE, methods |-> <<>>]

MethodsOf(code) == MethodsFrom(SplitLines(code), 1, 0)

RECURSIVE CodesOf(_)
CodesOf(records) ==
    IF records = <<>> THEN <<>> ELSE <<Head(records).code>> \o CodesOf(Tail(records))

\* C5 as stated: a Java blob over the budget that is N top-level methods (opening
\* brace on the signature line, closing brace on its own line) is written as
\* exactly N code blocks, block k being the trimmed text of method k.
C5_JavaMethodsAreBlocks ==
    CodeSplitDone =>
        \A idx \in 1..Len(code_content) :
            LET rec == code_content[idx]
            IN  (/\ detect_lang(rec.path) = "java"
                 /\ CountWords(rec.code) > SplitMaxWords
                 /\ MethodsOf(rec.code).ok)
                => CodesOf(RecordsOf(code_trunk, rec.path)) = MethodsOf(rec.code).methods

\* C7: a code file whose extracted comment string is empty has no record in the
\* comment-line stream and none in the comment-chunk stream.
C7_NoCommentsNoRecords ==
    \A k \in 1..Len(repo) :
        \/ /\ RecordsOf(comments_trunk, PathOf(k)) = <<>>
           /\ RecordsOf(comments_small, PathOf(k)) = <<>>
        \/ ~(/\ KindOf(Lower(repo[k].ext), DEFAULT_TEXT_EXTS, DEFAULT_CODE_EXTS) = "code"
             /\ repo[k].readable
             /\ SplitCodeAndComments(repo[k].content).comments = <<>>)

\* C7 witness: a finished run whose second file is a readable code file without
\* comments, between two files that have comment records in both streams
C7_Witness ==
    /\ pc = "done"
    /\ Len(repo) = 3
    /\ repo[2].readable
    /\ repo[2].ext = ".java"
    /\ SplitCodeAndComments(repo[2].content).comments = <<>>
    /\ \A k \in {1, 3} : /\ RecordsOf(comments_trunk, PathOf(k)) # <<>>
                         /\ RecordsOf(comments_small, PathOf(k)) # <<>>

\* C9 as stated: a code blob is left as a single unsplit block iff its word count
\* is at most the --max_words of the run, and is handed to its language's
\* splitter iff its word count exceeds it.
C9_ThresholdIsConfigured ==
    CodeSplitDone =>
        \A idx \in 1..Len(code_content) :
            (invoked[idx] = "none")
                <=> (CountWords(code_content[idx].code) <= args.max_words)

RECURSIVE PathsOf(_)
PathsOf(records) ==
    IF records = <<>> THEN <<>> ELSE <<Head(records).path>> \o PathsOf(Tail(records))

\* C10: a file that cannot be read has no record in any extracted-content stream,
\* every readable file before and after it is still extracted, and the streams
\* are what the run writes for the lists without the unreadable files.
C10_ReadFailureSkipsOneFile ==
    ExtractionDone =>
        /\ PathsOf(text_content) = SelectSeq(text_files, Readable)
        /\ PathsOf(other_content) = SelectSeq(other_files, Readable)
        /\ \A r \in 1..Len(code_content) : Readable(code_content[r].path)
        /\ \A r \in 1..Len(comments_content) : Readable(comments_content[r].path)
        /\ text_content = SaveContent(SelectSeq(text_files, Readable))
        /\ other_content = SaveContent(SelectSeq(other_files, Readable))
        /\ LET written == SaveCodeCommentSplit(SelectSeq(code_files, Readable))
           IN  /\ code_content = written.code
               /\ comments_content = written.comments

\* C10 witness: extraction is over, and an unreadable text file stood between two
\* readable ones that both have their record
C10_Witness ==
    /\ ExtractionDone
    /\ Len(text_files) = 3
    /\ Readable(text_files[1]) /\ ~Readable(text_files[2]) /\ Readable(text_files[3])
    /\ Len(text_content) = 2

\* C19: the comment-line stream and the comment-chunk stream number files alike.
\* For every path with records in both, the fileIndex of its comment-line
\* global_ids equals the fileIndex of its comment-chunk global_ids, and both are
\* the 1-based position of the path's record in the extracted-comments list.
C19_CommentStreamsNumberAlike ==
    \A a \in 1..Len(comments_trunk) :
        \A b \in 1..Len(comments_small) :
            comments_trunk[a].path = comments_small[b].path =>
                LET i == FileIndex(comments_trunk[a].global_id)
                IN  /\ FileIndex(comments_small[b].global_id) = i
                    /\ i \in 1..Len(comments_content)
                    /\ comments_content[i].path = comments_trunk[a].path

\* C19 witness: a finished run in which the second record of the
\* extracted-comments list has records in both streams
C19_Witness ==
    /\ pc = "done"
    /\ \E a \in 1..Len(comments_trunk) :
          \E b \in 1..Len(comments_small) :
             /\ comments_trunk[a].path = comments_small[b].path
             /\ FileIndex(comments_trunk[a].global_id) = 2
             /\ UnitIndex(comments_small[b].global_id) = 2

(***************************************************************************)
(* SpecConfig: main() with --text-ext and --code-ext given or left out, on *)
(* repositories that hold a directory and files over the split budget that *)
(* have no structural splitter or do not parse.                            *)
(***************************************************************************)
ConfigFileKinds ==
    {   \* a markdown file of three sentences, and one that cannot be decoded
        [is_file |-> TRUE, ext |-> ".md", readable |-> TRUE, ast |-> NoAst,
         content |-> <<"a", ".", " ", "a", " ", "a", ".", " ", "a">>],
        [is_file |-> TRUE, ext |-> ".MD", readable |-> FALSE, ast |-> NoAst, content |-> <<>>],
        \* a directory whose name ends in .md
        [is_file |-> FALSE, ext |-> ".md", readable |-> FALSE, ast |-> NoAst, content |-> <<>>],
        \* a Python file over the budget that ast.parse rejects
        [is_file |-> TRUE, ext |-> ".py", readable |-> TRUE, ast |-> "SyntaxError",
         content |-> <<"W", " ", "a", "{">>],
        \* a PHP file over the budget
        [is_file |-> TRUE, ext |-> ".php", readable |-> TRUE, ast |-> NoAst,
         content |-> <<"W", "\n", "a">>],
        \* a .txt file over the budget, two sentences
        [is_file |-> TRUE, ext |-> ".txt", readable |-> TRUE, ast |-> NoAst,
         content |-> <<"W", ".", " ", "a">>]
    }

\* the default of --max_words
DefaultMaxWords == 512

\* the values of --text-ext and of --code-ext, cut at the commas: the flag left
\* out, " TXT , " and " " for --text-ext, ".txt,py" for --code-ext
TextExtChoices == {<<>>, <<<<" ", "TXT", " ">>, <<" ">>>>, <<<<" ">>>>}
CodeExtChoices == {<<>>, <<<<".", "txt">>, <<"py">>>>}

InitConfig ==
    /\ ExIdle /\ SpIdle /\ ChIdle
    /\ repo \in SeqsUpTo(ConfigFileKinds, MaxFiles)
    /\ args \in [max_words : {DefaultMaxWords}, text_ext : TextExtChoices,
                 code_ext : CodeExtChoices, output_dir : {"outside"}]
    /\ run = [n |-> 1, first |-> <<>>]
    /\ pc = "classify"
    /\ text_files = <<>> /\ code_files = <<>> /\ other_files = <<>>
    /\ text_content = <<>> /\ code_content = <<>> /\ comments_content = <<>>
    /\ other_content = <<>> /\ code_trunk = <<>> /\ comments_trunk = <<>>
    /\ text_small = <<>> /\ comments_small = <<>> /\ invoked = <<>>

SpecConfig == InitConfig /\ [][Next]_vars

\* how often a path occurs in a list
Occurrences(list, path) == Cardinality({i \in 1..Len(list) : list[i] = path})

\* a list of paths follows the traversal
InTraversalOrder(list) == \A i, j \in 1..Len(list) : i < j => list[i].id < list[j].id

ClassifyDone == pc # "classify"

\* C12: classify_files partitions the regular files under the root.  Every regular
\* file is in exactly one of the text, code and other lists (and a directory in
\* none); a file is in the other list iff its lower-cased extension is in neither
\* extension set; each list keeps the traversal order.
C12_ClassifyPartitions ==
    ClassifyDone =>
        /\ \A k \in 1..Len(repo) :
               LET n == Occurrences(text_files, PathOf(k)) + Occurrences(code_files, PathOf(k))
                           + Occurrences(other_files, PathOf(k))
               IN  /\ n = (IF repo[k].is_file THEN 1 ELSE 0)
                   /\ repo[k].is_file =>
                         (Occurrences(other_files, PathOf(k)) = 1
                            <=> Lower(repo[k].ext) \notin (text_ext \cup code_ext))
        /\ \A list \in {text_files, code_files, other_files} :
               /\ InTraversalOrder(list)
               /\ \A i \in 1..Len(list) : list[i].id \in 1..Len(repo)

\* C12 witness: the lists of a repository that holds a directory, a file of an
\* upper-case extension and a file in the other list, with both flags given
C12_Witness ==
    /\ ClassifyDone
    /\ \E k \in 1..Len(repo) : ~repo[k].is_file
    /\ \E k \in 1..Len(repo) : repo[k].is_file /\ Lower(repo[k].ext) # repo[k].ext
    /\ args.text_ext # <<>> /\ args.code_ext # <<>>
    /\ other_files # <<>>

\* C13 as stated: every file in the text list (classified under the configured
\* text extension set) whose content holds a non-blank sentence has a record in
\* the text-chunk stream when the run is over.
C13_TextFilesHaveChunks ==
    pc = "done" =>
        \A i \in 1..Len(text_files) :
            (/\ Readable(text_files[i])
             /\ SplitTextIntoSentences(FileOf(text_files[i]).content) # <<>>)
                => RecordsOf(text_small, text_files[i]) # <<>>

\* a code record for which no structural split is obtained: ast.parse fails on
\* it, or its language has no splitter
NoStructuralSplit(rec) ==
    \/ detect_lang(rec.path) = "python" /\ FileOf(rec.path).ast = "SyntaxError"
    \/ detect_lang(rec.path) \in {"php", "unknown"}

\* C17: every code record yields at least one code block; a record over the budget
\* for which no structural split is obtained (the Python parser fails, or the
\* language is php or unknown) yields exactly one block, the whole unsplit code,
\* with unitIndex 1, and the records after it are still written.
C17_AlwaysAtLeastOneBlock ==
    CodeSplitDone =>
        \A idx \in 1..Len(code_content) :
            LET rec == code_content[idx]
                mine == RecordsOf(code_trunk, rec.path)
            IN  /\ Len(mine) >= 1
                /\ \A r \in 1..Len(mine) : FileIndex(mine[r].global_id) = idx
                /\ (CountWords(rec.code) > SplitMaxWords /\ NoStructuralSplit(rec)) =>
                      /\ Len(mine) = 1
                      /\ mine[1].code = rec.code
                      /\ mine[1].global_id = Digits(idx) \o <<".", "1">>

\* C17 witness: a finished run whose first code record is a Python file over the
\* budget that does not parse and whose second is of an unknown language, both
\* over the budget and both written
C17_Witness ==
    /\ pc = "done"
    /\ Len(code_content) >= 2
    /\ detect_lang(code_content[1].path) = "python"
    /\ detect_lang(code_content[2].path) = "unknown"
    /\ \A idx \in {1, 2} : /\ CountWords(code_content[idx].code) > SplitMaxWords
                            /\ NoStructuralSplit(code_content[idx])
    /\ Len(code_trunk) >= 2

(***************************************************************************)
(* SpecRerun: main() run twice in a row on the same repository, with an    *)
(* output_dir outside the repository or inside it.  The files are opened   *)
(* with mode "w", so a stage of the second run replaces what the first run *)
(* wrote; until it does, the file holds the first run's records.           *)
(***************************************************************************)
RerunFileKinds == {f \in FileKinds : f.ext \in {".md", ".rb", ".txt", ".png"}}

OutputDirs == {"outside", "inside"}

InitRerun ==
    /\ ExIdle /\ SpIdle /\ ChIdle
    /\ repo \in SeqsUpTo(RerunFileKinds, MaxFiles)
    /\ args \in [max_words : MaxWordsChoices, text_ext : {<<>>}, code_ext : {<<>>},
                 output_dir : OutputDirs]
    /\ run = [n |-> 1, first |-> <<>>]
    /\ pc = "classify"
    /\ text_files = <<>> /\ code_files = <<>> /\ other_files = <<>>
    /\ text_content = <<>> /\ code_content = <<>> /\ comments_content = <<>>
    /\ other_content = <<>> /\ code_trunk = <<>> /\ comments_trunk = <<>>
    /\ text_small = <<>> /\ comments_small = <<>> /\ invoked = <<>>

\* main() is started again with the same command line once the first run is over
Rerun ==
    /\ pc = "done"
    /\ run.n = 1
    /\ run' = [n |-> 2, first |-> Outputs]
    /\ pc' = "classify"
    /\ UNCHANGED <<repo, args, text_files, code_files, other_files, text_content,
                   code_content, comments_content, other_content, code_trunk,
                   comments_trunk, text_small, comments_small, invoked, ex, sp, ch>>

NextRerun == Next \/ Rerun

SpecRerun == InitRerun /\ [][NextRerun]_vars

\* C11 as stated: when the second of two runs in a row on the same repository and
\* command line is over, each of the eleven output files holds what the first run
\* wrote to it, wherever output_dir lies.
C11_SecondRunIdentical ==
    (pc = "done" /\ run.n = 2) => Outputs = run.first

(***************************************************************************)
(* SpecExtract: split_code_and_comments on every bounded content.          *)
(***************************************************************************)
ExtractAlphabet == {"/", "*", "#", "a", " ", "\n"}

InitExtract ==
    /\ PipeIdle /\ SpIdle /\ ChIdle
    /\ ex \in {[pc |-> "call", content |-> c, code |-> <<>>, comments |-> <<>>] :
                  c \in SeqsUpTo(ExtractAlphabet, MaxContentLen)}

ExtractCall ==
    /\ ex.pc = "call"
    /\ LET r == SplitCodeAndComments(ex.content)
       IN  ex' = [ex EXCEPT !.pc = "return", !.code = r.code, !.comments = r.comments]
    /\ UNCHANGED <<pipeVars, sp, ch>>

NextExtract == ExtractCall

SpecExtract == InitExtract /\ [][NextExtract]_vars

\* the labellings of n lines as code (TRUE) or comment (FALSE)
Labellings(n) == [1..n -> BOOLEAN]

RECURSIVE Project(_, _, _, _)
Project(ls, lab, want, i) ==
    IF i > Len(ls) THEN <<>>
    ELSE (IF lab[i] = want THEN <<ls[i]>> ELSE <<>>) \o Project(ls, lab, want, i + 1)

\* ls is partitioned, in order, into the lines of the two outputs
PartitionedInto(ls, code, comments) ==
    \E lab \in Labellings(Len(ls)) :
        /\ Project(ls, lab, TRUE, 1) = NormLines(SplitLines(code))
        /\ Project(ls, lab, FALSE, 1) = NormLines(SplitLines(comments))

\* C8 as stated: every line of the ORIGINAL content (up to surrounding whitespace)
\* is in exactly one of the code output and the comment output, in order.
C8_AllOriginalLinesPartitioned ==
    ex.pc = "return" =>
        PartitionedInto(NormLines(SplitLines(ex.content)), ex.code, ex.comments)

\* C8 amended: the lines that remain after the /* ... */ block comments are removed
\* (up to surrounding whitespace) are each in exactly one of the code output and
\* the comment output, in their original order.
C8_RemainingLinesPartitioned ==
    ex.pc = "return" =>
        PartitionedInto(NormLines(SplitLines(RemoveBlockComments(ex.content))),
                        ex.code, ex.comments)

\* C8 witness: a content holding a block comment and a line outside it was split
C8_Witness ==
    /\ ex.pc = "return"
    /\ RemoveBlockComments(ex.content) # ex.content
    /\ (ex.code # <<>> \/ ex.comments # <<>>)

(***************************************************************************)
(* SpecChunk: chunk_by_sentences on every bounded text and budget, one     *)
(* sentence per step.                                                      *)
(***************************************************************************)
TextAlphabet == {"a", " ", "."}
Budgets == 0..MaxBudget

InitChunk ==
    /\ PipeIdle /\ ExIdle /\ SpIdle
    /\ ch \in {[pc |-> "call", text |-> t, max_words |-> b, sents |-> <<>>, i |-> 1,
                chunks |-> <<>>, cur |-> <<>>, count |-> 0] :
                  t \in SeqsUpTo(TextAlphabet, MaxTextLen), b \in Budgets}

\* sents = split_text_into_sentences(text); chunks, cur, count = [], [], 0
ChunkCall ==
    /\ ch.pc = "call"
    /\ ch' = [ch EXCEPT !.pc = "loop", !.sents = SplitTextIntoSentences(ch.text)]
    /\ UNCHANGED <<pipeVars, ex, sp>>

\* one iteration of "for s in sents"
ChunkSentence ==
    /\ ch.pc = "loop"
    /\ ch.i <= Len(ch.sents)
    /\ LET st == ChunkBody([chunks |-> ch.chunks, cur |-> ch.cur, count |-> ch.count],
                           ch.sents[ch.i], ch.max_words)
       IN  ch' = [ch EXCEPT !.i = ch.i + 1, !.chunks = st.chunks, !.cur = st.cur,
                            !.count = st.count]
    /\ UNCHANGED <<pipeVars, ex, sp>>

\* the flush after the loop, and the return
ChunkReturn ==
    /\ ch.pc = "loop"
    /\ ch.i > Len(ch.sents)
    /\ ch' = [ch EXCEPT !.pc = "return",
                        !.chunks = ChunkFlushed([chunks |-> ch.chunks, cur |-> ch.cur])]
    /\ UNCHANGED <<pipeVars, ex, sp>>

NextChunk == ChunkCall \/ ChunkSentence \/ ChunkReturn

SpecChunk == InitChunk /\ [][NextChunk]_vars

\* a chunk that is one sentence whose own word count is over the budget
OversizedAlone(chunk, max_words) ==
    /\ Len(SplitTextIntoSentences(chunk)) = 1
    /\ SplitCount(chunk) > max_words

\* C3: every chunk chunk_by_sentences returns has at most max_words words (counted
\* as the function counts them, len(s.split())), unless it is exactly one sentence
\* whose own word count exceeds max_words.
C3_ChunkWithinBudget ==
    ch.pc = "return" =>
        \A k \in 1..Len(ch.chunks) :
            \/ SplitCount(ch.chunks[k]) <= ch.max_words
            \/ OversizedAlone(ch.chunks[k], ch.max_words)

\* C3 witness: a call returned an over-budget one-sentence chunk and, after it, a
\* chunk within a positive budget
C3_Witness ==
    /\ ch.pc = "return"
    /\ ch.max_words > 0
    /\ Len(ch.chunks) >= 2
    /\ OversizedAlone(ch.chunks[1], ch.max_words)
    /\ SplitCount(ch.chunks[2]) <= ch.max_words

\* the buffer as the chunk it would be closed as
OpenChunk(cur) == IF cur = <<>> THEN <<>> ELSE <<Join(cur, <<" ">>)>>

\* each chunk plus the first sentence of the next one is over the budget
NoRoomForNext(chunks, max_words) ==
    \A k \in 1..(Len(chunks) - 1) :
        SplitCount(chunks[k]) + SplitCount(SplitTextIntoSentences(chunks[k + 1])[1])
            > max_words

\* C6: packing is greedy.  In every iteration the running count is the word count
\* of the buffer; the chunk is closed before sentence s exactly when the buffer is
\* non-empty and count + words(s) > max_words, otherwise s joins the buffer; hence
\* every chunk plus the first sentence of the following chunk exceeds max_words.
C6_GreedyPacking ==
    [][/\ (ch.pc = "loop" /\ ch'.pc = "loop") =>
            LET s == ch.sents[ch.i]
                full == ch.cur # <<>> /\ ch.count + SplitCount(s) > ch.max_words
            IN  /\ ch.count = SplitCount(Join(ch.cur, <<" ">>))
                /\ full => /\ ch'.chunks = Append(ch.chunks, Join(ch.cur, <<" ">>))
                           /\ ch'.cur = <<s>>
                /\ ~full => /\ ch'.chunks = ch.chunks
                            /\ ch'.cur = Append(ch.cur, s)
                /\ NoRoomForNext(ch'.chunks \o OpenChunk(ch'.cur), ch.max_words)
       /\ (ch.pc = "loop" /\ ch'.pc = "return") =>
            /\ ch'.chunks = ch.chunks \o OpenChunk(ch.cur)
            /\ NoRoomForNext(ch'.chunks, ch.max_words)
      ]_vars

\* C6 witness: a call returned two chunks, the first packing two sentences
C6_Witness ==
    /\ ch.pc = "return"
    /\ Len(ch.chunks) = 2
    /\ Len(SplitTextIntoSentences(ch.chunks[1])) = 2
    /\ SplitCount(ch.chunks[1]) = ch.max_words

\* the chunks that the cuts (a cut after sentence k for k in cuts) make of the
\* sentences a..Len(sents), k being the sentence looked at
RECURSIVE SentenceRuns(_, _, _, _)
SentenceRuns(sents, cuts, a, k) ==
    IF k > Len(sents) THEN <<>>
    ELSE IF k \in cuts \/ k = Len(sents)
         THEN <<Join(SubSeq(sents, a, k), <<" ">>)>> \o SentenceRuns(sents, cuts, k + 1, k + 1)
         ELSE SentenceRuns(sents, cuts, a, k + 1)

\* C18: chunk_by_sentences never drops, duplicates, reorders or truncates a
\* sentence.  The chunks are the input sentences, each once and in order, cut into
\* consecutive non-empty runs and joined by a space within a run; no chunk is
\* empty and there are at most as many chunks as sentences.
C18_EverySentenceInOneChunk ==
    ch.pc = "return" =>
        LET sents == SplitTextIntoSentences(ch.text)
        IN  /\ \E cuts \in SUBSET (1..(Len(sents) - 1)) :
                   SentenceRuns(sents, cuts, 1, 1) = ch.chunks
            /\ \A k \in 1..Len(ch.chunks) : Strip(ch.chunks[k]) # <<>>
            /\ Len(ch.chunks) <= Len(sents)

\* C18 witness: a call returned several chunks, fewer than there are sentences,
\* one of them over the budget
C18_Witness ==
    /\ ch.pc = "return"
    /\ Len(ch.chunks) >= 2
    /\ Len(ch.chunks) < Len(SplitTextIntoSentences(ch.text))
    /\ \E k \in 1..Len(ch.chunks) : SplitCount(ch.chunks[k]) > ch.max_words

(***************************************************************************)
(* SpecSplit: one structural splitter on every bounded code blob, one line *)
(* per step.                                                               *)
(***************************************************************************)
JavaLineKinds ==
    {<<>>, <<" ", "a", " ">>, <<"a", "{">>, <<"}">>, <<"a", "{", "}">>,
     <<"}", "a", "{">>, <<"{", "{">>}
JsLineKinds ==
    {<<>>, <<" ", "a">>, <<"a", "{">>, <<"}">>, <<"a", "{", "}">>,
     <<" ", "/", "/", "{">>, <<"}", "}">>}
GoLineKinds ==
    {<<>>, <<" ", "a">>, <<"func", " ", "{">>, <<"func", "a", "{">>, <<"a", "{">>,
     <<"}">>, <<"a", "{", "}">>, <<" ", "func", "{", "}">>}
RubyLineKinds ==
    {<<>>, <<" ", "a">>, <<"def", " ", "a">>, <<" ", "end", " ">>, <<"end", "a">>,
     <<"def", "a">>, <<"class">>}

LineKinds(lang) ==
    CASE lang = "java" -> JavaLineKinds
      [] lang = "js"   -> JsLineKinds
      [] lang = "go"   -> GoLineKinds
      [] lang = "ruby" -> RubyLineKinds

SplitLangs == {"java", "js", "go", "ruby"}

InitSplit ==
    /\ PipeIdle /\ ExIdle /\ ChIdle
    /\ \E lang \in SplitLangs :
         \E ls \in SeqsUpTo(LineKinds(lang), MaxLines) :
            sp = [pc |-> "call", lang |-> lang, code |-> Join(ls, NL), lines |-> <<>>,
                  i |-> 1, blocks |-> <<>>, stack |-> <<>>, start |-> 1,
                  buffer |-> <<>>, depth |-> 0]

\* lines = code.splitlines() and the initial locals
SplitCall ==
    /\ sp.pc = "call"
    /\ sp' = [sp EXCEPT !.pc = "loop", !.lines = SplitLines(sp.code)]
    /\ UNCHANGED <<pipeVars, ex, ch>>

JavaLine ==
    /\ sp.pc = "loop" /\ sp.lang = "java" /\ sp.i <= Len(sp.lines)
    /\ LET st == JavaBody([blocks |-> sp.blocks, stack |-> sp.stack, start |-> sp.start],
                          sp.lines, sp.i)
       IN  sp' = [sp EXCEPT !.i = sp.i + 1, !.blocks = st.blocks, !.stack = st.stack,
                            !.start = st.start]
    /\ UNCHANGED <<pipeVars, ex, ch>>

JavaReturn ==
    /\ sp.pc = "loop" /\ sp.lang = "java" /\ sp.i > Len(sp.lines)
    /\ sp' = [sp EXCEPT !.pc = "return",
                        !.blocks = JavaEnd([blocks |-> sp.blocks, stack |-> sp.stack,
                                            start |-> sp.start], sp.lines, sp.code)]
    /\ UNCHANGED <<pipeVars, ex, ch>>

BufferLocals == [blocks |-> sp.blocks, buffer |-> sp.buffer, depth |-> sp.depth]

BufferStep(st) ==
    sp' = [sp EXCEPT !.i = sp.i + 1, !.blocks = st.blocks, !.buffer = st.buffer,
                     !.depth = st.depth]

JsLine ==
    /\ sp.pc = "loop" /\ sp.lang = "js" /\ sp.i <= Len(sp.lines)
    /\ BufferStep(JsBody(BufferLocals, sp.lines[sp.i]))
    /\ UNCHANGED <<pipeVars, ex, ch>>

GoLine ==
    /\ sp.pc = "loop" /\ sp.lang = "go" /\ sp.i <= Len(sp.lines)
    /\ BufferStep(GoBody(BufferLocals, sp.lines[sp.i]))
    /\ UNCHANGED <<pipeVars, ex, ch>>

RubyLine ==
    /\ sp.pc = "loop" /\ sp.lang = "ruby" /\ sp.i <= Len(sp.lines)
    /\ BufferStep(RubyBody(BufferLocals, sp.lines[sp.i]))
    /\ UNCHANGED <<pipeVars, ex, ch>>

\* the end of split_js_code, split_go_code and split_ruby_code
BufferReturn ==
    /\ sp.pc = "loop" /\ sp.lang \in {"js", "go", "ruby"} /\ sp.i > Len(sp.lines)
    /\ sp' = [sp EXCEPT !.pc = "return", !.blocks = BufferEnd(BufferLocals, sp.code)]
    /\ UNCHANGED <<pipeVars, ex, ch>>

NextSplit ==
    \/ SplitCall
    \/ JavaLine \/ JavaReturn
    \/ JsLine \/ GoLine \/ RubyLine \/ BufferReturn

SpecSplit == InitSplit /\ [][NextSplit]_vars

\* the non-empty trimmed texts of the runs of lines that the cuts (a cut after line
\* k for k in cuts) divide lines a..Len(lines) into, k being the line looked at
RECURSIVE Segments(_, _, _, _)
Segments(lines, cuts, a, k) ==
    IF k > Len(lines) THEN <<>>
    ELSE IF k \in cuts \/ k = Len(lines)
         THEN (IF BlockOf(lines, a, k) # <<>> THEN <<BlockOf(lines, a, k)>> ELSE <<>>)
                  \o Segments(lines, cuts, k + 1, k + 1)
         ELSE Segments(lines, cuts, a, k + 1)

\* blocks are the lines, each once and in order, cut into runs and trimmed per run
LinesOnceInOrder(lines, blocks) ==
    \E cuts \in SUBSET (1..(Len(lines) - 1)) : Segments(lines, cuts, 1, 1) = blocks

\* C2: the blocks a structural splitter (java, js/ts, go, ruby) returns are the
\* original lines, each exactly once and in the original order, divided into
\* consecutive runs, each run trimmed of leading and trailing whitespace and
\* dropped when blank (a blob that is blank altogether is returned as it is).
C2_BlocksKeepEveryLine ==
    sp.pc = "return" =>
        IF Strip(sp.code) = <<>>
        THEN sp.blocks = <<sp.code>>
        ELSE LinesOnceInOrder(SplitLines(sp.code), sp.blocks)

\* C2 witness: a splitter returned several blocks and trimmed whitespace between them
C2_Witness ==
    /\ sp.pc = "return"
    /\ Len(sp.blocks) >= 2
    /\ Len(Join(sp.blocks, NL)) < Len(sp.code)

\* the brace depth of the splitter at work: the height of split_java_code's stack,
\* brace_depth of split_js_code
BraceDepth(s) == IF s.lang = "java" THEN Len(s.stack) ELSE s.depth

\* the step closed a block at the line it read
ClosedAtLine ==
    IF sp.lang = "java" THEN sp'.start = sp.i + 1 ELSE sp'.buffer = <<>>

\* the lines not yet in a block
Leftover == IF sp.lang = "java" THEN SubSeq(sp.lines, sp.start, Len(sp.lines)) ELSE sp.buffer

\* C14 as stated: in the Java and JS/TS splitters the depth after a line is the
\* depth before it plus the number of "{" minus the number of "}" on the line; a
\* block is closed at a line exactly when the depth after it is zero and the line
\* holds "{"; the lines left at the end of input are flushed as one final block.
C14_BraceDepthCounted ==
    [][(sp.pc = "loop" /\ sp.lang \in {"java", "js"}) =>
          /\ sp'.pc = "loop" =>
                LET line == sp.lines[sp.i]
                IN  /\ BraceDepth(sp') = BraceDepth(sp) + Count(line, "{") - Count(line, "}")
                    /\ ClosedAtLine <=> (BraceDepth(sp') = 0 /\ Has(line, "{"))
          /\ sp'.pc = "return" =>
                sp'.blocks = OrWhole(WithBlock(sp.blocks, Leftover), sp.code)
      ]_vars

\* the first word of the line, leading whitespace apart, is one of the keywords
BeginsWithKeyword(line, keywords) ==
    LET rest == LStrip(line)
    IN  /\ rest # <<>>
        /\ Head(rest) \in keywords
        /\ (Len(rest) = 1 \/ rest[2] \notin WordTokens)

\* C15: in the Go splitter the depth is reset to zero on exactly the lines that
\* begin with func, type, var or const, before the line's own braces are counted;
\* on every other line it carries over; a block is closed at a line exactly when
\* the depth after the line is zero and the line holds "{".
C15_GoDepthResetOnDeclaration ==
    [][(sp.pc = "loop" /\ sp.lang = "go" /\ sp'.pc = "loop") =>
          LET line == sp.lines[sp.i]
              carried == IF BeginsWithKeyword(line, {"func", "type", "var", "const"})
                         THEN 0 ELSE sp.depth
          IN  /\ sp'.depth = carried + Count(line, "{") - Count(line, "}")
              /\ (sp'.buffer = <<>>) <=> (sp'.depth = 0 /\ Has(line, "{"))
              /\ sp'.buffer = <<>> =>
                    sp'.blocks = WithBlock(sp.blocks, Append(sp.buffer, line))
              /\ sp'.buffer # <<>> =>
                    sp'.buffer = Append(sp.buffer, line) /\ sp'.blocks = sp.blocks
      ]_vars

\* C15 witness: the Go splitter returned after a declaration line, read at a depth
\* other than zero, closed a block
C15_Witness ==
    /\ sp.pc = "return" /\ sp.lang = "go"
    /\ \E k \in 2..Len(sp.lines) :
          LET before == GoLoop(BufferStart, SubSeq(sp.lines, 1, k - 1))
          IN  /\ before.depth # 0
              /\ BeginsWithKeyword(sp.lines[k], {"func", "type", "var", "const"})
              /\ GoBody(before, sp.lines[k]).buffer = <<>>

\* C16: in the Ruby splitter the nesting counter is never negative; it grows by
\* one on each line that starts with class, module or def and falls by one on
\* each bare "end" line seen at positive depth; a block is closed exactly on the
\* bare "end" lines that bring the counter from 1 to 0.
C16_RubyNestingCounter ==
    [][(sp.pc = "loop" /\ sp.lang = "ruby" /\ sp'.pc = "loop") =>
          LET stripped == Strip(sp.lines[sp.i])
              bare_end == stripped = <<"end">>
          IN  /\ sp.depth >= 0 /\ sp'.depth >= 0
              /\ BeginsWithKeyword(stripped, {"class", "module", "def"}) =>
                    sp'.depth = sp.depth + 1
              /\ (bare_end /\ sp.depth > 0) => sp'.depth = sp.depth - 1
              /\ (sp'.buffer = <<>>) <=> (bare_end /\ sp.depth = 1 /\ sp'.depth = 0)
      ]_vars

\* C16 witness: the Ruby splitter returned after it read a bare "end" at depth
\* zero and, later, closed a block on an "end" that brought the counter to zero
C16_Witness ==
    /\ sp.pc = "return" /\ sp.lang = "ruby"
    /\ \E j, k \in 1..Len(sp.lines) :
          /\ j < k
          /\ Strip(sp.lines[j]) = <<"end">>
          /\ RubyLoop(BufferStart, SubSeq(sp.lines, 1, j - 1)).depth = 0
          /\ Strip(sp.lines[k]) = <<"end">>
          /\ RubyLoop(BufferStart, SubSeq(sp.lines, 1, k - 1)).depth = 1

=============================================================================
